---------------------------- MODULE Spec2Model ----------------------------
(***************************************************************************)
(* mkubootenv: conversion between a plaintext U-Boot environment           *)
(* ("name=value" lines) and the binary environment image                   *)
(* (CRC32, optional flags byte, NUL separated strings, NUL padding).       *)
(*                                                                         *)
(* The model follows the later revision of mkubootenv.c (the one with the  *)
(* -f and -n options, src/mkubootenv.c lines 321-685).  One run of the     *)
(* program is a sequence of steps of main(): option parsing, mapping the   *)
(* source, the size check (forward) or the scan for the end of the data    *)
(* (reverse), preparing the target, and the conversion itself.  Files are  *)
(* byte sequences; a mapping (MAP_SHARED) of a file is the file's content. *)
(***************************************************************************)
EXTENDS Integers, Sequences, FiniteSets, TLC

(***************************************************************************)
(* Program constants.                                                      *)
(***************************************************************************)
CRC32_SIZE == 4
FLAGS_SIZE == 1
TRAILER_SIZE == 2
NUL == 0
LF == 10

(***************************************************************************)
(* Bounds of the model.                                                    *)
(***************************************************************************)
\* longest plaintext source file of the forward runs
MaxData == 3
\* longest plaintext source file of the round trips
MaxPlain == 4
\* largest number of bytes a requested size (-s) exceeds the largest minimum
MaxPad == 2
\* longest data region (after the 4 CRC bytes) of a source image
MaxBody == 5
\* the same, for the images that are decoded twice
MaxOptBody == 3

\* the byte values files are made of: NUL, newline, 'a'
Byte == {0, 10, 97}
\* content of the target file before the program runs: longer than any
\* target the bounds allow, and holding no NUL
OldTarget == [i \in 1..(CRC32_SIZE + FLAGS_SIZE + MaxData + MaxPlain + MaxBody + MaxOptBody + TRAILER_SIZE + MaxPad) |-> 97]

SeqsUpTo(S, n) == UNION {[1..k -> S] : k \in 0..n}

Zeros(n) == [i \in 1..n |-> 0]

\* the bytes of buf at the 0-based offsets from .. to-1
Slice(buf, from, to) == [i \in 1..(to - from) |-> buf[from + i]]

(***************************************************************************)
(* crc32(): crc32.c is not among the sources; this is the table driven     *)
(* CRC-32 of U-Boot/zlib (reflected polynomial 0xEDB88320, the running     *)
(* value complemented on entry and on exit).  A 32 bit word is the tuple   *)
(* of its four bytes, least significant first.                             *)
(***************************************************************************)
RECURSIVE Xor(_, _)
Xor(a, b) == IF a = 0 THEN b
             ELSE IF b = 0 THEN a
             ELSE ((a + b) % 2) + 2 * Xor(a \div 2, b \div 2)

\* k rounds of "c = (c & 1) ? 0xEDB88320 ^ (c >> 1) : c >> 1" on the word
\* whose upper and lower 16 bits are hi and lo (0xEDB8 = 60856, 0x8320 = 33568)
RECURSIVE crc_round(_, _, _)
crc_round(hi, lo, k) ==
    IF k = 0 THEN <<lo % 256, lo \div 256, hi % 256, hi \div 256>>
    ELSE LET h == hi \div 2
             l == (lo \div 2) + 32768 * (hi % 2)
         IN  IF lo % 2 = 1 THEN crc_round(Xor(h, 60856), Xor(l, 33568), k - 1)
                           ELSE crc_round(h, l, k - 1)

\* the tables are computed once (@@ makes them explicit functions)
crc_table == [i \in 0..255 |-> crc_round(0, i, 8)] @@ <<>>

xor_table == [a \in 0..255 |-> [b \in 0..255 |-> Xor(a, b)] @@ <<>>] @@ <<>>

\* "crc = crc_table[(crc ^ *buf++) & 0xff] ^ (crc >> 8)"
crc_step(c, b) ==
    LET e == crc_table[xor_table[c[1]][b]]
    IN  <<xor_table[e[1]][c[2]], xor_table[e[2]][c[3]], xor_table[e[3]][c[4]], e[4]>>

\* the running value after the bytes i, i + 1, ... of buf (n = n has the
\* value computed before the next byte is taken)
RECURSIVE crc_update(_, _, _)
crc_update(c, buf, i) ==
    IF i > Len(buf) THEN c
    ELSE LET n == crc_step(c, buf[i])
         IN  IF n = n THEN crc_update(n, buf, i + 1) ELSE c

Complement(c) == [i \in 1..4 |-> 255 - c[i]]

crc32(crc, buf) == Complement(crc_update(Complement(crc), buf, 1))

Word0 == <<0, 0, 0, 0>>

\* the four bytes a uint32_t occupies in memory, in the platform's byte order
U32Bytes(w, be) == IF be THEN <<w[4], w[3], w[2], w[1]>> ELSE w

(***************************************************************************)
(* State.                                                                  *)
(***************************************************************************)
VARIABLES
    files,        \* the file system: name -> [exists, data]
    big_endian,   \* byte order of the platform the program is built for
    pc,           \* position of the running process in main(); "shell": none
    reverse,      \* main(): -r given
    do_crc,       \* main(): FALSE when -n given
    img_size,     \* main(): target size, 0 when -s is absent
    flags,        \* main(): value of -f
    flags_size,   \* main(): FLAGS_SIZE when -f given, else 0
    s,            \* struct file s: [name, size]
    t,            \* struct file t: [name, size]
    found_data_end, \* main(), reverse branch
    oob,          \* what reads past the end of the source mapping gave
    msgs,         \* errors and warnings printed by the running process
    args,         \* the command line of the running process
    hist          \* the finished runs, oldest first

vars == <<files, big_endian, pc, reverse, do_crc, img_size, flags, flags_size,
          s, t, found_data_end, oob, msgs, args, hist>>

FileNames == {"env", "img", "txt"}

NoFile == [exists |-> FALSE, data |-> <<>>]
File(d) == [exists |-> TRUE, data |-> d]

\* the process ends (exit(status), or death by a signal) leaving the file
\* system fs, having printed m; o and ts are the final oob and t.size
Finish(status, fs, m, o, ts) ==
    /\ pc' = "shell"
    /\ hist' = Append(hist, [args |-> args, status |-> status, msgs |-> m,
                             oob |-> o, flags_size |-> flags_size',
                             tsize |-> ts,
                             source |-> fs[args.sname],
                             target |-> fs[args.tname]])

(***************************************************************************)
(* main(): option parsing and the reverse mode warnings.                   *)
(* An absent option is <<>>, a given one <<value>>; the options come in the *)
(* order -s, -f, -r, -n and are followed by the two file names (-h, an     *)
(* unknown option and a missing file name end in usage_and_exit()).        *)
(***************************************************************************)
\* faulty variant: the value of -f is taken for the size of the flags
opt_f_value(v) == v

\* flags_size after "-f <flag>"
opt_f_size(v) == FLAGS_SIZE

\* the warnings main() prints before it opens the files
reverse_warnings(rev, isz, crc_on, fsz) ==
    (IF rev /\ isz > 0 THEN {"WARN_SIZE_IGNORED"} ELSE {})
    \cup (IF rev /\ ~crc_on THEN {"WARN_NOCRC_IGNORED"} ELSE {})
    \cup (IF rev /\ fsz > 0 THEN {"WARN_FLAGS_IGNORED"} ELSE {})

main(opt_r, opt_s, opt_f, opt_n, sname, tname) ==
    LET isz == IF opt_s = <<>> THEN 0 ELSE opt_s[1]
        flg == IF opt_f = <<>> THEN 0 ELSE opt_f[1]
        fsz == IF opt_f = <<>> THEN 0 ELSE opt_f_size(opt_f[1])
        bad_s == opt_s # <<>> /\ isz = 0
        bad_f == opt_f # <<>> /\ flg # 0 /\ flg # 1
    IN  /\ pc = "shell"
        /\ args' = [r |-> opt_r, s |-> opt_s, f |-> opt_f, n |-> opt_n,
                    sname |-> sname, tname |-> tname,
                    before |-> files[tname]]
        /\ reverse' = opt_r
        /\ do_crc' = ~opt_n
        /\ img_size' = isz
        /\ flags' = flg
        /\ flags_size' = fsz
        /\ s' = [name |-> sname, size |-> 0]
        /\ t' = [name |-> tname, size |-> 0]
        /\ found_data_end' = FALSE
        /\ oob' = "none"
        /\ UNCHANGED <<files, big_endian>>
        /\ IF bad_s
           THEN /\ msgs' = {"ERR_SIZE_ZERO"}
                /\ pc' = "shell"
                /\ hist' = Append(hist, [args |-> args', status |-> "EXIT_FAILURE",
                                         msgs |-> msgs', oob |-> "none",
                                         flags_size |-> fsz, tsize |-> 0,
                                         source |-> files[sname],
                                         target |-> files[tname]])
           ELSE IF bad_f
           THEN /\ msgs' = {"ERR_FLAG_VALUE"}
                /\ pc' = "shell"
                /\ hist' = Append(hist, [args |-> args', status |-> "EXIT_FAILURE",
                                         msgs |-> msgs', oob |-> "none",
                                         flags_size |-> fsz, tsize |-> 0,
                                         source |-> files[sname],
                                         target |-> files[tname]])
           ELSE /\ msgs' = reverse_warnings(opt_r, isz, ~opt_n, fsz)
                /\ pc' = "prepare_source"
                /\ hist' = hist

(***************************************************************************)
(* uboot_env_prepare_source(): open, fstat and mmap the source.  open()    *)
(* fails on a file that does not exist, mmap() on a length of 0 (EINVAL).  *)
(***************************************************************************)
uboot_env_prepare_source ==
    /\ pc = "prepare_source"
    /\ UNCHANGED <<files, big_endian, reverse, do_crc, img_size, flags,
                   flags_size, t, found_data_end, oob, args>>
    /\ IF ~files[s.name].exists
       THEN /\ msgs' = msgs \cup {"ERR_OPEN_SOURCE"}
            /\ s' = s
            /\ Finish("EXIT_FAILURE", files, msgs', oob, t.size)
       ELSE IF Len(files[s.name].data) = 0
       THEN /\ msgs' = msgs \cup {"ERR_MMAP_SOURCE"}
            /\ s' = s
            /\ Finish("EXIT_FAILURE", files, msgs', oob, t.size)
       ELSE /\ s' = [s EXCEPT !.size = Len(files[s.name].data)]
            /\ msgs' = msgs
            /\ pc' = IF reverse THEN "reverse" ELSE "forward"
            /\ hist' = hist

(***************************************************************************)
(* main(), forward branch: the size of the target image.                   *)
(***************************************************************************)
\* faulty variant: the trailer is left out of the minimum
min_img_size_no_trailer(ssize, fsz) == CRC32_SIZE + fsz + ssize

min_img_size(ssize, fsz) == CRC32_SIZE + fsz + ssize + TRAILER_SIZE

forward_size ==
    /\ pc = "forward"
    /\ UNCHANGED <<files, big_endian, reverse, do_crc, flags, flags_size, s,
                   found_data_end, oob, args>>
    /\ LET min == min_img_size(s.size, flags_size)
       IN  IF img_size = 0
           THEN /\ img_size' = min
                /\ t' = [t EXCEPT !.size = min]
                /\ msgs' = msgs
                /\ pc' = "prepare_target"
                /\ hist' = hist
           ELSE IF img_size < min
           THEN /\ img_size' = img_size
                /\ t' = t
                /\ msgs' = msgs \cup {"ERR_SIZE_TOO_SMALL"}
                /\ Finish("EXIT_FAILURE", files, msgs', oob, t.size)
           ELSE /\ img_size' = img_size
                /\ t' = [t EXCEPT !.size = img_size]
                /\ msgs' = msgs
                /\ pc' = "prepare_target"
                /\ hist' = hist

(***************************************************************************)
(* uboot_env_prepare_target(): open with O_CREAT|O_TRUNC, seek to          *)
(* size - 1, write one NUL byte and map the file.  The file is then size   *)
(* NUL bytes.  lseek() to -1 (size 0) fails, after the file was truncated. *)
(***************************************************************************)
\* faulty variant: the file is opened without O_TRUNC and keeps its old bytes
target_not_truncated(old, size) ==
    [i \in 1..size |-> IF i <= Len(old) THEN old[i] ELSE 0]

\* the target file once it is opened and extended to size bytes
target_created(old, size) == Zeros(size)

uboot_env_prepare_target ==
    /\ pc = "prepare_target"
    /\ UNCHANGED <<big_endian, reverse, do_crc, img_size, flags, flags_size,
                   s, t, found_data_end, oob, args>>
    /\ IF t.size = 0
       THEN /\ files' = [files EXCEPT ![t.name] = File(<<>>)]
            /\ msgs' = msgs \cup {"ERR_SEEK_TARGET"}
            /\ Finish("EXIT_FAILURE", files', msgs', oob, t.size)
       ELSE /\ files' = [files EXCEPT ![t.name] =
                            File(target_created(files[t.name].data, t.size))]
            /\ msgs' = msgs
            /\ pc' = IF reverse THEN "to_env" ELSE "to_img"
            /\ hist' = hist

(***************************************************************************)
(* uboot_env_to_img(): fill the mapped target from the mapped source.      *)
(***************************************************************************)
\* faulty variant: the newline is copied as it is
nl_kept(b) == b

\* "*p = (*q == '\n') ? '\0' : *q"
nl_to_nul(b) == IF b = LF THEN NUL ELSE b

\* faulty variant: the range starts right after the CRC, flags byte included
crc_range_with_flags(tsize, fsz) == <<CRC32_SIZE, tsize>>

\* the range of the target the CRC is computed over: 0-based [from, to)
crc_range(tsize, fsz) == <<CRC32_SIZE + fsz, tsize>>

\* the target buffer after uboot_env_to_img(); src and tgt are the mapped
\* source and target, of s->size and t->size bytes
to_img(src, tgt, flg, fsz, crc_on, be) ==
    LET ssize == Len(src)
        tsize == Len(tgt)
        \* CRC32 placeholder
        b1 == [i \in 1..tsize |-> IF i <= CRC32_SIZE THEN 0 ELSE tgt[i]]
        \* flags; p is the 0-based offset the pointer p has reached
        b2 == IF fsz > 0 THEN [b1 EXCEPT ![CRC32_SIZE + 1] = flg] ELSE b1
        p2 == IF fsz > 0 THEN CRC32_SIZE + 1 ELSE CRC32_SIZE
        \* copy the source file, replacing \n by \0
        b3 == [i \in 1..tsize |->
                 IF i > p2 /\ i <= p2 + ssize THEN nl_to_nul(src[i - p2])
                                              ELSE b2[i]]
        p3 == p2 + ssize
        \* trailer: q runs from s->ptr + s->size to s->ptr + t->size and
        \* every round stores 0 through p, which does not move
        b4 == IF ssize < tsize THEN [b3 EXCEPT ![p3 + 1] = 0] ELSE b3
        r  == crc_range(tsize, fsz)
        crc == U32Bytes(crc32(Word0, Slice(b4, r[1], r[2])), be)
    IN  IF crc_on
        THEN [i \in 1..tsize |-> IF i <= CRC32_SIZE THEN crc[i] ELSE b4[i]]
        ELSE b4

uboot_env_to_img ==
    /\ pc = "to_img"
    /\ UNCHANGED <<big_endian, reverse, do_crc, img_size, flags, flags_size,
                   s, t, found_data_end, oob, args, msgs>>
    /\ files' = [files EXCEPT ![t.name] =
                    File(to_img(files[s.name].data, files[t.name].data,
                                flags, flags_size, do_crc, big_endian))]
    /\ Finish("EXIT_SUCCESS", files', msgs, oob, t.size)

(***************************************************************************)
(* main(), reverse branch: the length of the data part.  The scan runs     *)
(* from offset CRC32_SIZE + flags_size up to that offset plus s.size, that *)
(* is CRC32_SIZE + flags_size bytes past the end of the mapped file.  What *)
(* a read past the end of the mapping gives is not defined by the program: *)
(* the rest of the file's last page reads as NUL bytes ("zero"), a page    *)
(* that is not mapped kills the process ("fault"), and a page of another   *)
(* mapping reads as whatever that holds ("junk", here the letter 'a').     *)
(***************************************************************************)
\* the byte a read past the end of the mapped file gives
AfterMapping(o) == IF o = "junk" THEN 97 ELSE NUL

\* the byte a read at the 0-based offset i of the mapped source gives
Peek(src, i, o) == IF i < Len(src) THEN src[i + 1] ELSE AfterMapping(o)

\* faulty variant: the first NUL byte ends the data
is_data_end_single(a, b) == a = NUL

\* "*p == '\0' && *(p + 1) == '\0'"
is_data_end(a, b) == a = NUL /\ b = NUL

\* the offset the scan starts at
data_start(fsz) == CRC32_SIZE + fsz

\* the offset the scan may not reach ("end")
scan_end(ssize, fsz) == CRC32_SIZE + fsz + ssize

\* for (p = start; (p < end - 1) && (!found_data_end); p++)
\*         if (*p == '\0' && *(p + 1) == '\0') found_data_end = true;
\* gives p after the loop, found_data_end, and whether a byte past the end
\* of the file was read
RECURSIVE scan(_, _, _, _, _)
scan(src, p, end, past, o) ==
    IF p < end - 1
    THEN LET a == Peek(src, p, o)
             b == Peek(src, p + 1, o)
             past1 == past \/ p >= Len(src) \/ (a = NUL /\ p + 1 >= Len(src))
         IN  IF is_data_end(a, b)
             THEN [p |-> p + 1, found |-> TRUE, past |-> past1]
             ELSE scan(src, p + 1, end, past1, o)
    ELSE [p |-> p, found |-> FALSE, past |-> past]

\* "t.size = p - (s.ptr + CRC32_SIZE + flags_size)"
plain_size(p, fsz) == p - (CRC32_SIZE + fsz)

\* the scan of the mapped source src when reads past its end go as o says
scanned(src, fsz, o) ==
    scan(src, data_start(fsz), scan_end(Len(src), fsz), FALSE, o)

reverse_scan ==
    /\ pc = "reverse"
    /\ UNCHANGED <<files, big_endian, reverse, do_crc, img_size, flags,
                   flags_size, s, args>>
    /\ \E o \in (IF scanned(files[s.name].data, flags_size, "zero").past
                  THEN {"zero", "junk", "fault"} ELSE {"none"}) :
           LET r == scanned(files[s.name].data, flags_size, o) IN
             /\ oob' = o
             /\ IF o = "fault"
                THEN /\ found_data_end' = FALSE
                     /\ t' = t
                     /\ msgs' = msgs
                     /\ Finish("SIGSEGV", files, msgs, o, t.size)
                ELSE /\ found_data_end' = r.found
                     /\ msgs' = IF r.found THEN msgs
                                ELSE msgs \cup {"WARN_NO_DELIMITER"}
                     /\ t' = [t EXCEPT !.size = plain_size(r.p, flags_size)]
                     /\ pc' = "prepare_target"
                     /\ hist' = hist

(***************************************************************************)
(* uboot_img_to_env(): check the CRC and fill the mapped target.           *)
(***************************************************************************)
\* faulty variant: the NUL is copied as it is
nul_kept(b) == b

\* "*p = (*q == '\0') ? '\n' : *q"
nul_to_nl(b) == IF b = NUL THEN LF ELSE b

\* "*crc != crc32(0, s->ptr + CRC32_SIZE + flags_size,
\*                s->size - CRC32_SIZE - flags_size)"
bad_crc(src, fsz, be) ==
    Slice(src, 0, CRC32_SIZE)
        # U32Bytes(crc32(Word0, Slice(src, CRC32_SIZE + fsz, Len(src))), be)

\* the target buffer after the copy loop
to_env(src, tsize, fsz, o) ==
    [i \in 1..tsize |-> nul_to_nl(Peek(src, CRC32_SIZE + fsz + i - 1, o))]

\* with s->size < CRC32_SIZE + flags_size the length handed to crc32() wraps
\* around (size_t) and crc32() runs over the whole address space
uboot_img_to_env ==
    /\ pc = "to_env"
    /\ UNCHANGED <<big_endian, reverse, do_crc, img_size, flags, flags_size,
                   s, t, found_data_end, oob, args>>
    /\ IF s.size < CRC32_SIZE + flags_size
       THEN /\ files' = files
            /\ msgs' = msgs
            /\ Finish("SIGSEGV", files, msgs, oob, t.size)
       ELSE /\ msgs' = IF bad_crc(files[s.name].data, flags_size, big_endian)
                       THEN msgs \cup {"WARN_BAD_CRC"} ELSE msgs
            /\ files' = [files EXCEPT ![t.name] =
                            File(to_env(files[s.name].data, t.size, flags_size, oob))]
            /\ Finish("EXIT_SUCCESS", files', msgs', oob, t.size)

(***************************************************************************)
(* The command lines and the specifications.                               *)
(***************************************************************************)
Idle ==
    /\ pc = "shell"
    /\ reverse = FALSE
    /\ do_crc = TRUE
    /\ img_size = 0
    /\ flags = 0
    /\ flags_size = 0
    /\ s = [name |-> "env", size |-> 0]
    /\ t = [name |-> "img", size |-> 0]
    /\ found_data_end = FALSE
    /\ oob = "none"
    /\ msgs = {}
    /\ args = [r |-> FALSE, s |-> <<>>, f |-> <<>>, n |-> FALSE,
               sname |-> "env", tname |-> "img", before |-> NoFile]
    /\ hist = <<>>

\* the sizes given with -s
Sizes == {0} \cup (CRC32_SIZE + TRAILER_SIZE ..
                   CRC32_SIZE + FLAGS_SIZE + MaxData + TRAILER_SIZE + MaxPad)

\* Forward runs: mkubootenv [-s n] [-f v] [-n] env img
InitEnc ==
    /\ Idle
    /\ big_endian \in BOOLEAN
    /\ \E src \in {NoFile} \cup {File(d) : d \in SeqsUpTo(Byte, MaxData)} :
         files = [n \in FileNames |->
                    IF n = "env" THEN src
                    ELSE IF n = "img" THEN File(OldTarget) ELSE NoFile]

run_forward ==
    /\ hist = <<>>
    /\ \E opt_s \in {<<>>} \cup {<<n>> : n \in Sizes},
          opt_f \in {<<>>, <<0>>, <<1>>, <<2>>},
          opt_n \in BOOLEAN :
         main(FALSE, opt_s, opt_f, opt_n, "env", "img")

NextEnc ==
    \/ run_forward
    \/ uboot_env_prepare_source
    \/ forward_size
    \/ uboot_env_prepare_target
    \/ uboot_env_to_img

SpecEnc == InitEnc /\ [][NextEnc]_vars

\* Reverse runs: mkubootenv -r [-f 0] img txt.  The images are the byte
\* strings shorter than a CRC, and a CRC field followed by a data region of
\* at most n bytes, where the CRC field holds the CRC of the region, the CRC
\* of the region without its first byte (the flags), or something else; and
\* the image whose data region is "a=1\0\0\0\0".
ExampleData == <<97, 61, 49, 0, 0, 0, 0>>

CrcFields(body, be) ==
    {U32Bytes(crc32(Word0, body), be),
     U32Bytes(crc32(Word0, IF body = <<>> THEN body ELSE Tail(body)), be),
     <<97, 0, 10, 0>>}

Images(be, n) ==
    SeqsUpTo(Byte, CRC32_SIZE - 1)
    \cup UNION {{c \o body : c \in CrcFields(body, be)} :
                  body \in SeqsUpTo(Byte, n) \cup {ExampleData}}

InitDec ==
    /\ Idle
    /\ big_endian \in BOOLEAN
    /\ \E img \in Images(big_endian, MaxBody) :
         files = [n \in FileNames |->
                    IF n = "img" THEN File(img)
                    ELSE IF n = "txt" THEN File(OldTarget) ELSE NoFile]

run_reverse ==
    /\ hist = <<>>
    /\ \E opt_f \in {<<>>, <<0>>} :
         main(TRUE, <<>>, opt_f, FALSE, "img", "txt")

NextDec ==
    \/ run_reverse
    \/ uboot_env_prepare_source
    \/ reverse_scan
    \/ uboot_env_prepare_target
    \/ uboot_img_to_env

SpecDec == InitDec /\ [][NextDec]_vars

\* Reverse runs, two in a row on the same image: mkubootenv -r [-f 0] img txt
\* and then mkubootenv -r [-s n] [-f v] [-n] img txt
InitOpt ==
    /\ Idle
    /\ big_endian \in BOOLEAN
    /\ \E img \in Images(big_endian, MaxOptBody) :
         files = [n \in FileNames |->
                    IF n = "img" THEN File(img)
                    ELSE IF n = "txt" THEN File(OldTarget) ELSE NoFile]

run_reverse_twice ==
    \/ /\ hist = <<>>
       /\ \E opt_f \in {<<>>, <<0>>} :
            main(TRUE, <<>>, opt_f, FALSE, "img", "txt")
    \/ /\ Len(hist) = 1
       /\ \E opt_s \in {<<>>, <<CRC32_SIZE>>},
             opt_f \in {<<>>, <<0>>, <<1>>},
             opt_n \in BOOLEAN :
            main(TRUE, opt_s, opt_f, opt_n, "img", "txt")

NextOpt ==
    \/ run_reverse_twice
    \/ uboot_env_prepare_source
    \/ reverse_scan
    \/ uboot_env_prepare_target
    \/ uboot_img_to_env

SpecOpt == InitOpt /\ [][NextOpt]_vars

\* Round trips: mkubootenv [-f v] env img and then mkubootenv -r [-f 0] img txt
InitRT ==
    /\ Idle
    /\ big_endian \in BOOLEAN
    /\ \E d \in SeqsUpTo(Byte, MaxPlain) :
         files = [n \in FileNames |->
                    IF n = "env" THEN File(d) ELSE File(OldTarget)]

run_round_trip ==
    \/ /\ hist = <<>>
       /\ \E opt_f \in {<<>>, <<0>>, <<1>>} :
            main(FALSE, <<>>, opt_f, FALSE, "env", "img")
    \/ /\ Len(hist) = 1
       /\ \E opt_f \in {<<>>, <<0>>} :
            main(TRUE, <<>>, opt_f, FALSE, "img", "txt")

NextRT ==
    \/ run_round_trip
    \/ uboot_env_prepare_source
    \/ forward_size
    \/ reverse_scan
    \/ uboot_env_prepare_target
    \/ uboot_env_to_img
    \/ uboot_img_to_env

SpecRT == InitRT /\ [][NextRT]_vars

(***************************************************************************)
(* Properties of forward runs (SpecEnc).                                   *)
(***************************************************************************)
Finished == pc = "shell" /\ hist # <<>>
Last == hist[Len(hist)]

\* 1 when the run r was given -f, else 0
GivenFlagsSize(r) == IF r.args.f = <<>> THEN 0 ELSE 1

\* a forward run whose options were accepted and whose source was mapped
Encoding(r) ==
    /\ ~r.args.r
    /\ r.args.s # <<0>>
    /\ r.args.f \in {<<>>, <<0>>, <<1>>}
    /\ r.source.exists
    /\ Len(r.source.data) > 0

MinSize(r) == 4 + GivenFlagsSize(r) + Len(r.source.data) + 2

Encoded(r) == Encoding(r) /\ r.status = "EXIT_SUCCESS"

\* C2: size enforcement on encode.  With min_size = 4 + flags_size + len(D)
\* + 2: an absent size resolves to min_size, a requested size >= min_size is
\* used as given, and in both cases the run succeeds with a target of that
\* size; a requested size < min_size fails with the size-too-small error and
\* a nonzero exit status; and the target file is as it was before the run
\* in every state up to and including the size check, and after the failure.
\* (-s 0 is refused when the options are parsed, with the same outcome.)
C2_SizeEnforcement ==
    /\ pc \in {"prepare_source", "forward"} => files[args.tname] = args.before
    /\ Finished /\ Encoding(Last) =>
         LET r == Last
             min == MinSize(r)
         IN  IF r.args.s = <<>>
             THEN /\ r.status = "EXIT_SUCCESS"
                  /\ r.tsize = min
                  /\ Len(r.target.data) = min
             ELSE IF r.args.s[1] >= min
             THEN /\ r.status = "EXIT_SUCCESS"
                  /\ r.tsize = r.args.s[1]
                  /\ Len(r.target.data) = r.args.s[1]
             ELSE /\ r.status = "EXIT_FAILURE"
                  /\ "ERR_SIZE_TOO_SMALL" \in r.msgs
                  /\ r.target = r.args.before
    /\ Finished /\ Last.args.s = <<0>> =>
         /\ Last.status = "EXIT_FAILURE"
         /\ Last.target = Last.args.before

\* a run with a size one byte short of the minimum has failed
C2_Witness ==
    /\ Finished /\ Encoding(Last)
    /\ Last.args.s = <<MinSize(Last) - 1>>
    /\ Last.status = "EXIT_FAILURE"
    /\ Last.target = File(OldTarget)

\* C3: encode layout.  In every successfully encoded image the flags byte,
\* when -f is given, is at offset 4 and equals the given value, and the byte
\* at offset 4 + flags_size + i is 0x00 where D[i] is 0x0A and D[i]
\* otherwise, for every i in 0..len(D)-1.
C3_Layout ==
    Finished /\ Encoded(Last) =>
        LET r == Last
            D == r.source.data
            img == r.target.data
            fsz == GivenFlagsSize(r)
        IN  /\ Len(img) >= 4 + fsz + Len(D)
            /\ r.args.f # <<>> => img[4 + 1] = r.args.f[1]
            /\ \A i \in 0..(Len(D) - 1) :
                 img[4 + fsz + i + 1] = IF D[i + 1] = 10 THEN 0 ELSE D[i + 1]

\* an image with the flags byte 1 whose data holds a newline and a letter
C3_Witness ==
    /\ Finished /\ Encoded(Last)
    /\ Last.args.f = <<1>>
    /\ Last.source.data = <<97, 10, 97>>
    /\ Slice(Last.target.data, 4, 8) = <<1, 97, 0, 97>>

\* C4: padding zero-fill.  In every successfully encoded image of size S
\* every byte from offset 4 + flags_size + len(D) to S - 1 is 0x00, and
\* there are at least 2 of them.
C4_Padding ==
    Finished /\ Encoded(Last) =>
        LET r == Last
            img == r.target.data
            from == 4 + GivenFlagsSize(r) + Len(r.source.data)
        IN  /\ Len(img) = r.tsize
            /\ Len(img) - from >= 2
            /\ \A i \in from..(Len(img) - 1) : img[i + 1] = 0

\* an image larger than the minimum by more than one byte, whose source
\* does not end the list itself
C4_Witness ==
    /\ Finished /\ Encoded(Last)
    /\ Last.args.s # <<>>
    /\ Last.tsize >= MinSize(Last) + 2
    /\ Last.source.data = <<97>>

\* C5: checksum field.  With checksum computation enabled the first 4 bytes
\* of the finished image are, in the platform's byte order, the CRC-32 with
\* seed 0 of the image's final bytes from offset 4 + flags_size to the end;
\* with -n they are all zero.
C5_Checksum ==
    Finished /\ Encoded(Last) =>
        LET r == Last
            img == r.target.data
            fsz == GivenFlagsSize(r)
        IN  IF r.args.n
            THEN Slice(img, 0, 4) = <<0, 0, 0, 0>>
            ELSE Slice(img, 0, 4) =
                   U32Bytes(crc32(<<0, 0, 0, 0>>, Slice(img, 4 + fsz, Len(img))),
                            big_endian)

\* an image with a flags byte and a checksum that is not zero
C5_Witness ==
    /\ Finished /\ Encoded(Last)
    /\ ~Last.args.n
    /\ Last.args.f = <<1>>
    /\ Last.source.data = <<97, 10>>
    /\ Slice(Last.target.data, 0, 4) # <<0, 0, 0, 0>>

(***************************************************************************)
(* Properties of round trips (SpecRT).                                     *)
(***************************************************************************)
NoNul(d) == \A i \in 1..Len(d) : d[i] # 0

\* no empty line: no two newlines in a row
NoEmptyEntry(d) == \A i \in 1..(Len(d) - 1) : ~(d[i] = 10 /\ d[i + 1] = 10)

EndsWithNewline(d) == Len(d) > 0 /\ d[Len(d)] = 10

\* both runs are over, and the decode was told of the flags byte exactly
\* when the encode wrote one
RoundTripDone ==
    /\ pc = "shell"
    /\ Len(hist) = 2
    /\ GivenFlagsSize(hist[2]) = GivenFlagsSize(hist[1])

\* C1 as stated: for every plaintext D without a 0x00 byte and without an
\* empty entry, and every flags choice, decoding the image encoded from D
\* (no size, checksum on) with the matching flags_size gives exactly D.
\* (Stated for the round trips in which both runs succeed.)
C1_RoundTrip ==
    RoundTripDone =>
        LET D == hist[1].source.data
        IN  /\ NoNul(D) /\ NoEmptyEntry(D)
            /\ hist[1].status = "EXIT_SUCCESS"
            /\ hist[2].status = "EXIT_SUCCESS"
            => hist[2].target = File(D)

\* C1, amended: for every plaintext D that ends with 0x0A and has no 0x00
\* byte and no two 0x0A in a row, and every flags choice, encode and decode
\* succeed and the decoded plaintext is exactly D; for a D that is not
\* empty, has no 0x00 and no two 0x0A in a row and does not end with 0x0A,
\* the decoded plaintext is D followed by one 0x0A.
C1_RoundTripNewline ==
    RoundTripDone =>
        LET D == hist[1].source.data
        IN  Len(D) > 0 /\ NoNul(D) /\ NoEmptyEntry(D) =>
              /\ hist[1].status = "EXIT_SUCCESS"
              /\ hist[2].status = "EXIT_SUCCESS"
              /\ hist[2].target =
                   File(IF EndsWithNewline(D) THEN D ELSE D \o <<10>>)

\* "a\n" went through an image with a flags byte and came back
C1_Witness ==
    /\ RoundTripDone
    /\ hist[1].args.f = <<1>>
    /\ hist[1].source.data = <<97, 10>>
    /\ hist[1].status = "EXIT_SUCCESS"
    /\ hist[2].target = File(<<97, 10>>)

(***************************************************************************)
(* Properties of reverse runs (SpecDec, SpecOpt).                          *)
(***************************************************************************)
\* a reverse run whose source was mapped
Decoding(r) ==
    /\ r.args.r
    /\ r.source.exists
    /\ Len(r.source.data) > 0

\* offset of the data region of the run's image
DataOffset(r) == 4 + GivenFlagsSize(r)

\* two zero bytes at the 0-based offsets k and k + 1 of img
PairAt(img, k) == k + 1 < Len(img) /\ img[k + 1] = 0 /\ img[k + 2] = 0

\* the image of run r holds two consecutive zero bytes in its data region
HasTerminator(r) ==
    \E k \in DataOffset(r)..(Len(r.source.data) - 2) : PairAt(r.source.data, k)

FirstPair(r) ==
    CHOOSE k \in DataOffset(r)..(Len(r.source.data) - 2) :
        /\ PairAt(r.source.data, k)
        /\ \A j \in DataOffset(r)..(k - 1) : ~PairAt(r.source.data, j)

\* C6: decode output at the terminator.  For an image whose region from
\* offset 4 + flags_size holds two consecutive zero bytes, the run succeeds
\* and the plaintext is the bytes of the region up to and including the
\* first zero of the first such pair, every 0x00 turned into 0x0A and every
\* other byte unchanged.  The data section "a=1\0\0\0\0" gives "a=1\n".
C6_DecodeAtTerminator ==
    \A n \in 1..Len(hist) :
        LET r == hist[n]
            img == r.source.data
            base == DataOffset(r)
        IN  /\ Decoding(r) /\ HasTerminator(r) =>
                /\ r.status = "EXIT_SUCCESS"
                /\ r.target =
                     File([i \in 1..(FirstPair(r) - base + 1) |->
                             IF img[base + i] = 0 THEN 10 ELSE img[base + i]])
            /\ /\ Decoding(r)
               /\ r.args.f = <<>>
               /\ Len(img) = 4 + 7
               /\ Slice(img, 4, 4 + 7) = <<97, 61, 49, 0, 0, 0, 0>>
               => r.target = File(<<97, 61, 49, 10>>)

\* the image with the data section "a=1\0\0\0\0" was decoded
C6_Witness ==
    /\ Finished
    /\ Last.args.f = <<>>
    /\ Slice(Last.source.data, 4, Len(Last.source.data)) = <<97, 61, 49, 0, 0, 0, 0>>
    /\ Last.status = "EXIT_SUCCESS"
    /\ Last.target = File(<<97, 61, 49, 10>>)

\* C7: decode validates the image length first.  A reverse run on an image
\* shorter than 4 + flags_size never gets to prepare the target or to read
\* the checksum, leaves the target file as it was and ends with the exit
\* status of an error.
C7_ImageTooSmall ==
    /\ /\ pc \in {"prepare_target", "to_env"}
       /\ reverse
       => s.size >= 4 + flags_size
    /\ \A n \in 1..Len(hist) :
        LET r == hist[n]
        IN  Decoding(r) /\ Len(r.source.data) < DataOffset(r) =>
              /\ r.status = "EXIT_FAILURE"
              /\ r.target = r.args.before

\* C8: decode warnings are not fatal.  A reverse run on an image of at least
\* 4 + flags_size bytes ends with exit status 0 and a plaintext written,
\* whatever its checksum field holds and whether or not it holds a
\* terminator.
C8_WarningsNonFatal ==
    \A n \in 1..Len(hist) :
        LET r == hist[n]
        IN  Decoding(r) /\ Len(r.source.data) >= DataOffset(r) =>
              /\ r.status = "EXIT_SUCCESS"
              /\ r.target.exists
              /\ Len(r.target.data) = r.tsize

\* C9: the missing-terminator warning is printed exactly when the image has
\* no two consecutive zero bytes from offset 4 + flags_size to its end, and
\* then the plaintext ends inside the image.
C9_NoTerminatorFound ==
    \A n \in 1..Len(hist) :
        LET r == hist[n]
        IN  /\ Decoding(r)
            /\ Len(r.source.data) >= DataOffset(r)
            /\ r.status = "EXIT_SUCCESS"
            => /\ ("WARN_NO_DELIMITER" \in r.msgs) <=> ~HasTerminator(r)
               /\ ~HasTerminator(r) =>
                    r.tsize <= Len(r.source.data) - DataOffset(r)

\* both reverse runs on the image are over, and the reads past the end of
\* the mapping, if any, went the same way in both
TwoDecoded ==
    /\ pc = "shell"
    /\ Len(hist) = 2
    /\ hist[1].oob = hist[2].oob

C11_DecodeInsideImage ==
    \A n \in 1..Len(hist) :
        LET r == hist[n]
        IN  /\ Decoding(r)
            /\ Len(r.source.data) > DataOffset(r)
            => /\ r.oob = "none"
               /\ r.status = "EXIT_SUCCESS" =>
                    r.tsize <= Len(r.source.data) - DataOffset(r)

=============================================================================
